---- MODULE Spec2Model ----
(***************************************************************************)
(* Go module proxy synchronisation: the proxy client (gomodproxy.Client),  *)
(* the dependency identifier (reposource.GoDependency) and the             *)
(* reconciliation run (repos.GoModulesSource.ListRepos).                   *)
(*                                                                         *)
(* Strings are sequences of symbols.  "p" and "q" stand for a chunk of     *)
(* text that golang.org/x/mod accepts in a module path, "v1" and "v2" for  *)
(* a canonical semantic version, "@" for the at sign, "!" for a character  *)
(* that neither a path nor a version may contain, "go/" for the scheme     *)
(* prefix.  The empty string is the empty sequence.                        *)
(*                                                                         *)
(* Specifications:                                                         *)
(*   SpecClient    calls of the proxy client, one at a time                *)
(*   SpecDo        the same, and single requests by Client.do              *)
(*   SpecRace      the loops of Client.get of several clients, interleaved *)
(*   SpecLimiter   the requests of one client through its rate limiter     *)
(*   SpecShared    the requests of several clients to one endpoint         *)
(*   SpecParse     a dependency string parsed, printed, resolved           *)
(*   SpecEqual     a dependency string parsed, compared with a coordinate  *)
(*   SpecName      a coordinate named, its name parsed back                *)
(*   SpecGetRepo   GetRepo called with the name of a record or a string    *)
(*   Spec          one run of ListRepos, the consumer receiving            *)
(*   SpecStalling  one run of ListRepos, the consumer free to stop         *)
(*   SpecRuns      runs of ListRepos one after the other                   *)
(***************************************************************************)
EXTENDS Integers, Sequences, FiniteSets, TLC

\* ------------------------------------------------------------------ bounds

\* Longest list of proxy URLs a configuration holds.
MaxUrls == 2
\* Longest list of statically configured dependencies.
MaxDeps == 2
\* Most rows the persisted dependency store holds.
MaxRows == 2
\* Page size of the store query (Limit: 100 in the code, scaled down).
PageLimit == 2
\* Capacity of the results channel (0: unbuffered).
ChanCap == 0

\* ----------------------------------------------------------------- strings

At == "@"
GoPrefix == "go/"
PathSyms == {"p", "q"}
VerSyms == {"v1", "v2"}

RECURSIVE LastIndex(_, _)
\* strings.LastIndex: the 1-based position of the last c in s, 0 when absent
\* (Go: the 0-based index, -1 when absent).
LastIndex(s, c) ==
    IF s = <<>> THEN 0
    ELSE IF s[Len(s)] = c THEN Len(s)
    ELSE LastIndex(SubSeq(s, 1, Len(s) - 1), c)

\* module.CheckPath of golang.org/x/mod: TRUE when the path is accepted.
CheckPath(path) ==
    /\ path # <<>>
    /\ \A k \in 1..Len(path) : path[k] \in PathSyms

\* module.Check looking at the path only.
Check_PathOnly(path, version) == CheckPath(path)

\* module.Check of golang.org/x/mod: path and canonical version accepted.
Check(path, version) ==
    /\ CheckPath(path)
    /\ Len(version) = 1
    /\ version[1] \in VerSyms

\* A nil *GoDependency / the value returned beside a non-nil error.
NilDep == [ok |-> FALSE, Path |-> <<>>, Version |-> <<>>]

\* ParseGoDependency giving a string without an at sign the version "latest".
ParseGoDependency_DefaultLatest(dependency) ==
    LET i == LastIndex(dependency, At)
        path == IF i = 0 THEN dependency ELSE SubSeq(dependency, 1, i - 1)
        version == IF i = 0 THEN <<"latest">> ELSE SubSeq(dependency, i + 1, Len(dependency))
        valid == IF i # 0 /\ version # <<>> THEN Check(path, version) ELSE CheckPath(path)
    IN  IF valid THEN [ok |-> TRUE, Path |-> path, Version |-> version]
        ELSE NilDep

\* reposource.ParseGoDependency: ok = FALSE stands for (nil, err).
ParseGoDependency(dependency) ==
    LET i == LastIndex(dependency, At)
        path == IF i = 0 THEN dependency ELSE SubSeq(dependency, 1, i - 1)
        version == IF i = 0 THEN <<>> ELSE SubSeq(dependency, i + 1, Len(dependency))
        valid == IF version # <<>> THEN Check(path, version) ELSE CheckPath(path)
    IN  IF valid THEN [ok |-> TRUE, Path |-> path, Version |-> version]
        ELSE NilDep

\* strings.TrimPrefix: s without the leading prefix, s itself when it does
\* not start with it.
TrimPrefix(s, prefix) ==
    IF s # <<>> /\ s[1] = prefix THEN SubSeq(s, 2, Len(s)) ELSE s

\* ParseGoDependencyFromRepoName parsing the name with its prefix on.
ParseGoDependencyFromRepoName_NoTrim(name) == ParseGoDependency(name)

\* reposource.ParseGoDependencyFromRepoName.
ParseGoDependencyFromRepoName(name) ==
    ParseGoDependency(TrimPrefix(name, GoPrefix))

\* GoDependency.PackageSyntax: the module path.
PackageSyntax(d) == d.Path

\* GoDependency.PackageVersion.
PackageVersion(d) == d.Version

\* PackageManagerSyntax writing the at sign even before an empty version.
PackageManagerSyntax_AlwaysAt(d) == d.Path \o <<At>> \o d.Version

\* GoDependency.PackageManagerSyntax: module.Version.String(), the path alone
\* when the version is empty.
PackageManagerSyntax(d) ==
    IF d.Version = <<>> THEN d.Path ELSE d.Path \o <<At>> \o d.Version

\* RepoName with the version kept in the name.
RepoName_WithVersion(d) == <<GoPrefix>> \o d.Path \o <<At>> \o d.Version

\* GoDependency.RepoName.
RepoName(d) == <<GoPrefix>> \o d.Path

\* Equal comparing the paths only.
Equal_PathOnly(d, other) ==
    \/ ~d.ok /\ ~other.ok
    \/ d.ok /\ other.ok /\ d.Path = other.Path

\* GoDependency.Equal: both nil, or both non-nil with the same path and
\* version.
Equal(d, other) ==
    \/ ~d.ok /\ ~other.ok
    \/ d.ok /\ other.ok /\ d.Path = other.Path /\ d.Version = other.Version

\* ------------------------------------------------------------ proxy client

StatusOK == 200
StatusNoContent == 204
StatusNotFound == 404
StatusGone == 410
StatusInternalServerError == 500

\* Base URLs a configuration may list; "%" is one http.NewRequestWithContext
\* cannot parse.
BadURL == "%"
URLS == {"A", "B", BadURL}

\* What an endpoint does with one request: net = TRUE when cli.Do or the read
\* of the body fails (no status), else the status code of its answer.
Responses ==
    [net : {FALSE},
     code : {StatusOK, StatusNoContent, StatusNotFound, StatusGone,
             StatusInternalServerError}]
    \cup {[net |-> TRUE, code |-> 0]}

\* Response bodies: the bytes served by the endpoint at position k of c.urls;
\* NilBody is the nil io.Reader.
NilBody == 0
BodyOf(k) == k

\* Errors.  kind: "nil" (no error), "Error" (*gomodproxy.Error, with the
\* status code), "transport" (cli.Do / io.ReadAll), "ctx" (limiter.Wait
\* under a cancelled context), "url" (http.NewRequestWithContext).
\* at: the position in c.urls of the endpoint that produced it (for an
\* Error, the endpoint of the path requested); Message: the body served.
NoErr == [kind |-> "nil", Code |-> 0, at |-> 0]
ProxyError(k, code) ==
    [kind |-> "Error", Code |-> code, at |-> k, Message |-> BodyOf(k)]
TransportErr(k) == [kind |-> "transport", Code |-> 0, at |-> k]
CtxErr(k) == [kind |-> "ctx", Code |-> 0, at |-> k]
URLErr(k) == [kind |-> "url", Code |-> 0, at |-> k]

\* IsNotFound with 410 (Gone) forgotten.
IsNotFound_Only404(e) == e.Code = StatusNotFound

\* IsNotFound true of every status.
IsNotFound_AnyStatus(e) == TRUE

\* (*Error).IsNotFound.
IsNotFound(e) == e.Code = StatusNotFound \/ e.Code = StatusGone

\* errcode.IsNotFound: the error is one that reports itself not found.
ErrcodeIsNotFound(e) == e.kind = "Error" /\ IsNotFound(e)

\* Client.do taking every 2xx status for a success.
ClientDo_Any2xx(k, r) ==
    IF r.net THEN [body |-> NilBody, err |-> TransportErr(k)]
    ELSE IF r.code < 200 \/ r.code > 299
         THEN [body |-> NilBody, err |-> ProxyError(k, r.code)]
         ELSE [body |-> BodyOf(k), err |-> NoErr]

\* Client.do: the request to the endpoint at position k, answered by r.
ClientDo(k, r) ==
    IF r.net THEN [body |-> NilBody, err |-> TransportErr(k)]
    ELSE IF r.code # StatusOK
         THEN [body |-> NilBody, err |-> ProxyError(k, r.code)]
         ELSE [body |-> BodyOf(k), err |-> NoErr]

\* No limiter registered for a URL.
NoLimiter == 0

\* ratelimit.Registry.GetOrSet: the limiter registered for baseURL, after
\* registering fallback when there was none.
GetOrSet(reg, baseURL, fallback) ==
    IF reg[baseURL] = NoLimiter
    THEN [reg EXCEPT ![baseURL] = fallback]
    ELSE reg

\* The limiter the client created for itself, waited on whatever the
\* registry holds.
WaitLimiter_Own(reg, baseURL, own) == own

\* Lines 85 and 88: the limiter a request to baseURL waits on is the one
\* GetOrSet returned, the one the registry reg holds for baseURL after it.
WaitLimiter(reg, baseURL, own) == reg[baseURL]

\* A wait that never fails.
WaitFails_Never(env, k) == FALSE

\* Line 88: limiter.Wait(ctx) of the iteration at position k returns an
\* error, ctx being cancelled by then.
WaitFails(env, k) == env.cancelAt # 0 /\ env.cancelAt <= k

RECURSIVE GetLoop(_, _, _, _, _, _)
\* The loop of Client.get from the endpoint at position k on.  env is the
\* call and what its environment does during it:
\*   env.urls      c.urls
\*   env.limiter   c.limiter
\*   env.resp      the response of each endpoint, were it contacted
\*   env.cancelAt  the position whose limiter.Wait finds ctx cancelled
\*                 (0: ctx is not cancelled during the call)
\* respBody is the named result; the named result err is never assigned in
\* the loop (line 96 declares the err that lines 101-102 use), so the loop
\* ends with err = nil unless it returns from within.
GetLoop(k, env, respBody, contacted, waited, reg) ==
    IF k > Len(env.urls)
    THEN [body |-> respBody, err |-> NoErr, contacted |-> contacted,
          waited |-> waited, reg |-> reg, fired |-> FALSE]
    ELSE
      LET reg1 == GetOrSet(reg, env.urls[k], env.limiter)
          limiter == WaitLimiter(reg1, env.urls[k], env.limiter)
          waited1 == Append(waited, limiter)
      IN  IF WaitFails(env, k)
          THEN [body |-> NilBody, err |-> CtxErr(k), contacted |-> contacted,
                waited |-> waited1, reg |-> reg1, fired |-> TRUE]
          ELSE IF env.urls[k] = BadURL
          THEN [body |-> NilBody, err |-> URLErr(k), contacted |-> contacted,
                waited |-> waited1, reg |-> reg1, fired |-> FALSE]
          ELSE
            LET r == ClientDo(k, env.resp[k])
                contacted1 == Append(contacted, k)
            IN  IF r.err = NoErr \/ ~ErrcodeIsNotFound(r.err)
                THEN [body |-> r.body, err |-> NoErr, contacted |-> contacted1,
                      waited |-> waited1, reg |-> reg1, fired |-> FALSE]
                ELSE GetLoop(k + 1, env, r.body, contacted1, waited1, reg1)

\* Client.get.  The result: body and err are what it returns; contacted the
\* positions of the endpoints it sent a request to, in order; waited the
\* limiters it waited on; reg the registry after the call; fired whether
\* it saw the cancellation.
ClientGet(env, reg) == GetLoop(1, env, NilBody, <<>>, <<>>, reg)

\* A read of the nil io.Reader that goes unnoticed.
Panics_Never(r) == FALSE

\* A call that does not return: a nil io.Reader is read (nil dereference).
Panics(r) == r.err = NoErr /\ r.body = NilBody

\* Client.GetVersion.  The result: ok when it returns (&v, nil), with payload
\* the body v was decoded from; err the error it returns; panic when the
\* decoder reads the nil reader.
GetVersion(env, reg) ==
    LET r == ClientGet(env, reg)
    IN  [op |-> "GetVersion", ok |-> r.err = NoErr /\ r.body # NilBody,
         payload |-> r.body, err |-> r.err, panic |-> Panics(r),
         contacted |-> r.contacted, waited |-> r.waited, reg |-> r.reg,
         fired |-> r.fired,
         answers |-> [n \in 1..Len(r.contacted) |-> env.resp[r.contacted[n]]]]

\* Client.ListVersions: the scanner reads the nil reader when get returned
\* (nil, nil).
ListVersions(env, reg) ==
    LET r == ClientGet(env, reg)
    IN  [op |-> "ListVersions", ok |-> r.err = NoErr /\ r.body # NilBody,
         payload |-> r.body, err |-> r.err, panic |-> Panics(r),
         contacted |-> r.contacted, waited |-> r.waited, reg |-> r.reg,
         fired |-> r.fired,
         answers |-> [n \in 1..Len(r.contacted) |-> env.resp[r.contacted[n]]]]

\* Client.GetZip: returns what get returns; reads nothing itself.
GetZip(env, reg) ==
    LET r == ClientGet(env, reg)
    IN  [op |-> "GetZip", ok |-> r.err = NoErr /\ r.body # NilBody,
         payload |-> r.body, err |-> r.err, panic |-> FALSE,
         contacted |-> r.contacted, waited |-> r.waited, reg |-> r.reg,
         fired |-> r.fired,
         answers |-> [n \in 1..Len(r.contacted) |-> env.resp[r.contacted[n]]]]

\* ------------------------------------------------------------ rate limiter

\* math.Inf(1): no limit (RateLimit nil or not enabled).
Inf == -1

\* The burst NewClient gives every limiter.
Burst == 100

\* rate.Limit(requestsPerHour/3600.0): permits per second.
Limit(requestsPerHour) ==
    IF requestsPerHour = Inf THEN Inf ELSE requestsPerHour \div 3600

\* rate.NewLimiter(limit, 100) in NewClient, with the clock (ms) at 0: a
\* token bucket that starts full.  n counts the waits that returned, idle
\* the time the caller let pass between requests.
NewLimiter(requestsPerHour) ==
    [limit |-> Limit(requestsPerHour), burst |-> Burst, tokens |-> Burst,
     now |-> 0, n |-> 0, idle |-> 0]

\* A wait that takes a permit without ever waiting for one.
LimiterWait_NeverWaits(b) == [b EXCEPT !.n = b.n + 1]

\* limiter.Wait(ctx), ctx not cancelled: return at once when the limit is
\* Inf; take a token when there is one; else wait until one has accrued
\* (1000/limit ms) and take it.
LimiterWait(b) ==
    IF b.limit = Inf THEN [b EXCEPT !.n = b.n + 1]
    ELSE IF b.tokens >= 1
         THEN [b EXCEPT !.tokens = b.tokens - 1, !.n = b.n + 1]
         ELSE [b EXCEPT !.now = b.now + (1000 \div b.limit), !.n = b.n + 1]

\* One second passes without a request: limit tokens accrue, up to burst.
LimiterIdle(b) ==
    [b EXCEPT !.now = b.now + 1000,
              !.idle = b.idle + 1000,
              !.tokens = IF b.limit = Inf THEN b.tokens
                         ELSE IF b.tokens + b.limit > b.burst THEN b.burst
                         ELSE b.tokens + b.limit]

\* ------------------------------------------------------------------- state

\* Clients (one per configured source); client c owns the limiter c that
\* NewClient created for it.
NClients == 2
Clients == 1..NClients

VARIABLES
    urls,         \* Client.urls: the configured proxy URLs, in order
    registry,     \* ratelimit.DefaultRegistry: base URL -> limiter
    cancelled,    \* the run's ctx is cancelled
    last,         \* the last proxy operation and its result
    deps,         \* config.Dependencies: the configured dependency strings
    store,        \* the persisted dependency store: rows, ID = position
    pc,           \* where ListRepos is
    i,            \* position in deps of the next dependency (Phase 1)
    lastID,       \* the cursor
    page,         \* depRepos: the page being processed
    j,            \* position in page of the next item
    pkgVersions,  \* the in-run cache: module path -> version metadata
    produced,     \* every SourceResult ListRepos has sent or is sending
    blocked,      \* ListRepos is blocked in a send (of the last of produced)
    nrecv,        \* number of results the consumer has received
    consuming,    \* the consumer is still receiving
    fetched,      \* the page fetches made: cursor passed and what came back
    infoFetched,  \* the module paths fetched from the proxy in Phase 2
    earlier,      \* what the runs of ListRepos that ended before this one sent
    getAt,        \* per client: position in c.urls of the iteration of the
                  \* loop of Client.get it is at (0: not in a call)
    waitedOn,     \* the waits so far: which client waited, for a request
                  \* to which base URL, on which limiter
    bucket,       \* a client's limiter (rate.Limiter) and the clock
    coord         \* a dependency string and what parsing, printing and
                  \* resolving it have yielded so far

clientVars == <<urls, registry, cancelled, last>>
runVars == <<deps, store, pc, i, lastID, page, j, pkgVersions, produced,
             blocked, nrecv, consuming, fetched, infoFetched, earlier>>
raceVars == <<getAt, waitedOn>>
vars == <<urls, registry, cancelled, last, deps, store, pc, i, lastID, page,
          j, pkgVersions, produced, blocked, nrecv, consuming, fetched,
          infoFetched, earlier, getAt, waitedOn, bucket, coord>>

RECURSIVE SeqsUpTo(_, _)
\* The sequences over S of length at most n.
SeqsUpTo(S, n) ==
    IF n = 0 THEN {<<>>}
    ELSE LET shorter == SeqsUpTo(S, n - 1)
         IN  shorter \cup {Append(s, x) : s \in {t \in shorter : Len(t) = n - 1}, x \in S}

\* No proxy operation yet.
NoCall ==
    [op |-> "none", client |-> 0, mod |-> <<>>, version |-> <<>>, ok |-> FALSE,
     payload |-> NilBody, err |-> NoErr, panic |-> FALSE, contacted |-> <<>>,
     waited |-> <<>>, fired |-> FALSE, answers |-> <<>>, resp |-> <<>>,
     cancelAt |-> 0]

\* The record of a proxy operation r by client c for module mod at version;
\* resp is what each endpoint answers, were it contacted; cancelAt, where
\* it is kept, the position whose wait finds ctx cancelled (0: none).
CallRecord(r, c, mod, version, resp) ==
    [op |-> r.op, client |-> c, mod |-> mod, version |-> version, ok |-> r.ok,
     payload |-> r.payload, err |-> r.err, panic |-> r.panic,
     contacted |-> r.contacted, waited |-> r.waited, fired |-> r.fired,
     answers |-> r.answers, resp |-> resp, cancelAt |-> 0]

\* When the context of a call over n endpoints may be found cancelled: at
\* the first Wait when it already is, else at any Wait or never (0).
CancelPoints(n) == IF cancelled THEN {1} ELSE 0..n

\* A request under a cancelled context gets no answer.
NoAnswer == [net |-> TRUE, code |-> 0]

\* The environment of one call by client c: what each endpoint answers and
\* where the cancellation falls.
Envs(c, answers) ==
    UNION {
      {[urls |-> urls, limiter |-> c, resp |-> rs, cancelAt |-> ca] :
          rs \in {f \in [1..Len(urls) -> answers \cup {NoAnswer}] :
                    \A k \in 1..Len(urls) : (ca # 0 /\ k >= ca) => f[k] = NoAnswer}}
      : ca \in CancelPoints(Len(urls))}

\* The cache before anything is cached.
EmptyCache == [k \in {} |-> [Versions |-> {}]]

EmptyRegistry == [u \in URLS |-> NoLimiter]

\* No repository (a nil *types.Repo).
NoRepo ==
    [Name |-> <<>>, URI |-> <<>>, ExternalID |-> <<>>, CloneURL |-> <<>>,
     Private |-> FALSE]

\* No dependency string under consideration.
NoCoord ==
    [stage |-> "none", input |-> <<>>, dep |-> NilDep, printed |-> <<>>,
     reparsed |-> NilDep, repo |-> NoRepo, other |-> NilDep, eq |-> FALSE,
     qe |-> FALSE, self |-> FALSE, named |-> NilDep, name |-> <<>>,
     otherName |-> <<>>, from |-> "none", asked |-> <<>>, proxy |-> <<>>,
     cancelAt |-> 0, got |-> NoRepo, gotOk |-> FALSE, gotPanic |-> FALSE]

\* State of a run that has not started (the client specification leaves the
\* run alone).
RunIdle ==
    /\ deps = <<>>
    /\ store = <<>>
    /\ pc = "idle"
    /\ i = 1
    /\ lastID = 0
    /\ page = <<>>
    /\ j = 1
    /\ pkgVersions = EmptyCache
    /\ produced = <<>>
    /\ blocked = FALSE
    /\ nrecv = 0
    /\ consuming = TRUE
    /\ fetched = <<>>
    /\ infoFetched = <<>>
    /\ earlier = <<>>
    /\ getAt = [c \in Clients |-> 0]
    /\ waitedOn = {}
    /\ coord = NoCoord

\* ------------------------------------------------- the client on its own

\* Module paths and versions requested of the proxy.
Modules == {<<"p">>}
Versions == {<<"v1">>}

InitClient ==
    /\ urls \in SeqsUpTo(URLS, MaxUrls)
    /\ registry = EmptyRegistry
    /\ cancelled = FALSE
    /\ last = NoCall
    /\ RunIdle
    /\ bucket = NewLimiter(Inf)

\* A call of Client.GetVersion by client c.
CallGetVersion ==
    /\ last = NoCall
    /\ \E c \in Clients, mod \in Modules, version \in Versions :
      \E env \in Envs(c, Responses) :
        LET r == GetVersion(env, registry)
        IN  /\ last' = [CallRecord(r, c, mod, version, env.resp)
                        EXCEPT !.cancelAt = env.cancelAt]
            /\ registry' = r.reg
            /\ UNCHANGED <<urls, cancelled>>
            /\ UNCHANGED runVars
            /\ UNCHANGED raceVars
            /\ UNCHANGED coord
            /\ UNCHANGED bucket

\* A call of Client.ListVersions by client c.
CallListVersions ==
    /\ last = NoCall
    /\ \E c \in Clients, mod \in Modules :
      \E env \in Envs(c, Responses) :
        LET r == ListVersions(env, registry)
        IN  /\ last' = [CallRecord(r, c, mod, <<>>, env.resp)
                        EXCEPT !.cancelAt = env.cancelAt]
            /\ registry' = r.reg
            /\ UNCHANGED <<urls, cancelled>>
            /\ UNCHANGED runVars
            /\ UNCHANGED raceVars
            /\ UNCHANGED coord
            /\ UNCHANGED bucket

\* A call of Client.GetZip by client c.
CallGetZip ==
    /\ last = NoCall
    /\ \E c \in Clients, mod \in Modules, version \in Versions :
      \E env \in Envs(c, Responses) :
        LET r == GetZip(env, registry)
        IN  /\ last' = [CallRecord(r, c, mod, version, env.resp)
                        EXCEPT !.cancelAt = env.cancelAt]
            /\ registry' = r.reg
            /\ UNCHANGED <<urls, cancelled>>
            /\ UNCHANGED runVars
            /\ UNCHANGED raceVars
            /\ UNCHANGED coord
            /\ UNCHANGED bucket

\* The caller is done with the result of the call; the next call may start.
Return ==
    /\ last # NoCall
    /\ last' = NoCall
    /\ UNCHANGED <<urls, registry, cancelled>>
    /\ UNCHANGED runVars
    /\ UNCHANGED raceVars
    /\ UNCHANGED coord
    /\ UNCHANGED bucket

NextClient == CallGetVersion \/ CallListVersions \/ CallGetZip \/ Return

SpecClient == InitClient /\ [][NextClient]_vars

\* ------------------------------------------------ the reconciliation run

\* The client of the GoModulesSource whose run is modelled.
RunClient == 1

\* Dependency strings a configuration may list: two versions of one module
\* and a string that does not parse.
DepStrings ==
    {<<"p", "@", "v1">>, <<"p", "@", "v2">>, <<"!", "@", "v1">>}

\* What the proxy endpoints answer during a run.
RunResponses ==
    {[net |-> FALSE, code |-> StatusOK], [net |-> FALSE, code |-> StatusNotFound],
     [net |-> FALSE, code |-> StatusInternalServerError], NoAnswer}

\* Rows (name, version) the persisted store may hold; "!" is a name that
\* does not parse.
RowData ==
    {[Name |-> <<"p">>, Version |-> <<"v1">>],
     [Name |-> <<"p">>, Version |-> <<"v2">>],
     [Name |-> <<"q">>, Version |-> <<"v1">>],
     [Name |-> <<"!">>, Version |-> <<"v1">>]}

\* Versions the proxy's metadata of a module may list.
MetaVersions == {<<"v1">>, <<"v2">>}

\* The URL list of the run's client: a single proxy (failover between
\* several is the matter of the client specification).
RunUrls == <<"A">>

\* Errors of the run itself, in the shape of the client's.
ParseErr(k) == [kind |-> "parse", Code |-> 0, at |-> k]
StoreErr == [kind |-> "store", Code |-> 0, at |-> 0]

\* makeRepo taking the clone URL from the versioned syntax of the dependency.
makeRepo_CloneURLFromSyntax(dep) ==
    LET repoName == RepoName(dep)
    IN  [Name |-> repoName, URI |-> repoName, ExternalID |-> repoName,
         CloneURL |-> <<GoPrefix>> \o PackageManagerSyntax(dep), Private |-> FALSE]

\* GoModulesSource.makeRepo.
makeRepo(dep) ==
    LET repoName == RepoName(dep)
    IN  [Name |-> repoName, URI |-> repoName, ExternalID |-> repoName,
         CloneURL |-> repoName, Private |-> FALSE]

\* GoModulesSource.GetRepo(ctx, name).  The result: ok when it returns
\* (repo, nil); panic when ListVersions does not return; called whether
\* ListVersions was called, list what it did, reg the registry afterwards.
GetRepo(name, env, reg) ==
    LET dep == ParseGoDependency(name)
    IN  IF ~dep.ok
        THEN [ok |-> FALSE, repo |-> NoRepo, err |-> ParseErr(0), panic |-> FALSE,
              called |-> FALSE, list |-> <<>>, reg |-> reg, fired |-> FALSE]
        ELSE LET r == ListVersions(env, reg)
             IN  IF r.panic \/ r.err # NoErr
                 THEN [ok |-> FALSE, repo |-> NoRepo, err |-> r.err,
                       panic |-> r.panic, called |-> TRUE, list |-> r,
                       reg |-> r.reg, fired |-> r.fired]
                 ELSE [ok |-> TRUE, repo |-> makeRepo(dep), err |-> NoErr,
                       panic |-> FALSE, called |-> TRUE, list |-> r,
                       reg |-> r.reg, fired |-> r.fired]

\* SourceResult{Err: err} and SourceResult{Source: s, Repo: repo}.  phase and
\* idx say what the result is for: the configured dependency at position idx
\* (phase 1), the store row with ID idx (phase 2), the configuration as a
\* whole (phase 0, goDependencies) or a page fetch (phase 2, idx 0).
ErrResult(err, phase, idx) ==
    [kind |-> "err", repo |-> NoRepo, err |-> err, phase |-> phase, idx |-> idx]
RepoResult(repo, phase, idx) ==
    [kind |-> "repo", repo |-> repo, err |-> NoErr, phase |-> phase, idx |-> idx]

\* goDependencies skipping the strings that do not parse.
goDependencies_SkipInvalid(connection) ==
    LET good == SelectSeq(connection, LAMBDA d : ParseGoDependency(d).ok)
    IN  [ok |-> TRUE, at |-> 0,
         dependencies |-> [k \in 1..Len(good) |-> ParseGoDependency(good[k])]]

RECURSIVE goDependenciesFrom(_, _, _)
goDependenciesFrom(connection, k, dependencies) ==
    IF k > Len(connection)
    THEN [ok |-> TRUE, at |-> 0, dependencies |-> dependencies]
    ELSE LET dependency == ParseGoDependency(connection[k])
         IN  IF ~dependency.ok
             THEN [ok |-> FALSE, at |-> k, dependencies |-> <<>>]
             ELSE goDependenciesFrom(connection, k + 1,
                                     Append(dependencies, dependency))

\* goDependencies: the parsed configured dependencies, or the first parse
\* error (ok = FALSE, at its position) and no dependency at all.
goDependencies(connection) == goDependenciesFrom(connection, 1, <<>>)

\* The store row with ID id.
Row(id) == [ID |-> id, Name |-> store[id].Name, Version |-> store[id].Version]

\* DependenciesStore.ListDependencyRepos with NewestFirst: the rows whose ID
\* is greater than after, newest (greatest ID) first, at most limit of them.
ListDependencyRepos(after, limit) ==
    LET n == Len(store)
        avail == IF n > after THEN n - after ELSE 0
        m == IF avail < limit THEN avail ELSE limit
    IN  [k \in 1..m |-> Row(n - k + 1)]

\* Whether a page fetch may fail: it does under a cancelled context.
StoreFailures == IF cancelled THEN {TRUE} ELSE BOOLEAN

\* Client.GetPackageInfo: what the metadata fetch of a module may return,
\* an error (always, under a cancelled context) or the versions it lists.
PackageInfos ==
    {[ok |-> FALSE, Versions |-> {}]}
    \cup (IF cancelled THEN {}
          ELSE {[ok |-> TRUE, Versions |-> V] : V \in SUBSET MetaVersions})

\* The cache when a failed fetch leaves no entry behind.
CacheAfterFetch_NoNegativeEntry(cache, pkgKey, got) ==
    IF got.ok
    THEN [k \in DOMAIN cache \cup {pkgKey} |->
            IF k = pkgKey THEN [Versions |-> got.Versions] ELSE cache[k]]
    ELSE cache

\* Lines 99-107: the cache after the lookup of pkgKey missed and the fetch
\* returned got (an empty entry when it failed).
CacheAfterFetch(cache, pkgKey, got) ==
    [k \in DOMAIN cache \cup {pkgKey} |->
        IF k = pkgKey
        THEN [Versions |-> IF got.ok THEN got.Versions ELSE {}]
        ELSE cache[k]]

\* The version check left out.
hasVersion_Always(info, version) == TRUE

\* The page visited last item first.
ItemAt_Reversed(depRepos, n) == depRepos[Len(depRepos) - n + 1]

\* The loop ended by a page shorter than the page size.
PageEndsLoop_ShortPage(depRepos) == Len(depRepos) < PageLimit

\* The loop going on to the next fetch after a failed one.
AfterStoreError_Continue == "fetch"

\* Line 109: the version is among those the metadata lists.
hasVersion(info, version) == version \in info.Versions

\* Line 88: the item the loop over the page visits at its j-th iteration.
ItemAt(depRepos, n) == depRepos[n]

\* Line 82: the page that ends the loop.
PageEndsLoop(depRepos) == Len(depRepos) = 0

\* An error record sent for an item whose name does not parse.
BadRowResults_Reported(dbDep) == <<ErrResult(ParseErr(dbDep.ID), 2, dbDep.ID)>>

\* ListRepos returning at an item whose name does not parse.
AfterRowParseError_Return(onward) == "done"

\* Lines 78-81: where ListRepos goes after a failed page fetch (it returns).
AfterStoreError == "done"

\* Lines 90-93: what ListRepos sends for an item whose name does not parse
\* (nothing: the error is logged).
BadRowResults(dbDep) == <<>>

\* Lines 90-93: where the page loop goes after an item whose name does not
\* parse (it continues: onward is the next iteration, or the next fetch).
AfterRowParseError(onward) == onward

\* Line 97-99: info == nil, nothing cached for pkgKey.
CacheMiss(cache, pkgKey) == pkgKey \notin DOMAIN cache

\* The results buffered in the channel, and those it has accepted.
Sent == IF blocked THEN SubSeq(produced, 1, Len(produced) - 1) ELSE produced
Chan == SubSeq(Sent, nrecv + 1, Len(Sent))
Received == SubSeq(produced, 1, nrecv)

\* A send that never blocks: results queued inside the producer.
Send_Buffered(r) ==
    /\ produced' = Append(produced, r)
    /\ blocked' = FALSE

\* results <- r: the channel takes r when it has room; else the sender
\* blocks until the consumer receives.
Send(r) ==
    /\ produced' = Append(produced, r)
    /\ blocked' = ~(Len(Chan) < ChanCap)

NoSend == UNCHANGED <<produced, blocked>>

Init ==
    /\ urls = RunUrls
    /\ registry = EmptyRegistry
    /\ cancelled = FALSE
    /\ last = NoCall
    /\ deps \in SeqsUpTo(DepStrings, MaxDeps)
    /\ store \in SeqsUpTo(RowData, MaxRows)
    /\ pc = "start"
    /\ i = 1
    /\ lastID = 0
    /\ page = <<>>
    /\ j = 1
    /\ pkgVersions = EmptyCache
    /\ produced = <<>>
    /\ blocked = FALSE
    /\ nrecv = 0
    /\ consuming = TRUE
    /\ fetched = <<>>
    /\ infoFetched = <<>>
    /\ earlier = <<>>
    /\ getAt = [c \in Clients |-> 0]
    /\ waitedOn = {}
    /\ coord = NoCoord
    /\ bucket = NewLimiter(Inf)

\* ListRepos, lines 53-57: parse the configuration; a parse error is sent
\* and ends the run.
Start ==
    /\ pc = "start"
    /\ LET parsed == goDependencies(deps)
       IN  IF ~parsed.ok
           THEN /\ Send(ErrResult(ParseErr(parsed.at), 0, parsed.at))
                /\ pc' = "done"
           ELSE /\ NoSend
                /\ pc' = "phase1"
    /\ UNCHANGED <<urls, registry, cancelled, last, deps, store, i, lastID,
                   page, j, pkgVersions, nrecv, consuming, fetched, infoFetched>>
    /\ UNCHANGED <<earlier, getAt, waitedOn, bucket, coord>>

\* ListRepos, lines 59-68: one iteration of the loop over the configured
\* dependencies.
Phase1 ==
    /\ pc = "phase1"
    /\ ~blocked
    /\ i <= Len(goDependencies(deps).dependencies)
    /\ \E env \in Envs(RunClient, RunResponses) :
        LET dep == goDependencies(deps).dependencies[i]
            r == GetVersion(env, registry)
        IN  /\ last' = CallRecord(r, RunClient, PackageSyntax(dep), PackageVersion(dep), <<>>)
            /\ registry' = r.reg
            /\ cancelled' = (cancelled \/ r.fired)
            /\ IF r.panic
               THEN /\ pc' = "panic"
                    /\ NoSend
                    /\ i' = i
               ELSE /\ pc' = pc
                    /\ i' = i + 1
                    /\ IF r.err # NoErr
                       THEN Send(ErrResult(r.err, 1, i))
                       ELSE Send(RepoResult(makeRepo(dep), 1, i))
    /\ UNCHANGED <<urls, deps, store, lastID, page, j, pkgVersions, nrecv,
                   consuming, fetched, infoFetched>>
    /\ UNCHANGED <<earlier, getAt, waitedOn, bucket, coord>>

\* ListRepos, lines 70-86: the next page of the store.
Fetch ==
    /\ IF pc = "phase1" THEN i > Len(goDependencies(deps).dependencies)
       ELSE pc = "fetch"
    /\ ~blocked
    /\ \E fails \in StoreFailures :
        LET depRepos == ListDependencyRepos(lastID, PageLimit)
        IN  IF fails
            THEN /\ Send(ErrResult(StoreErr, 2, 0))
                 /\ pc' = AfterStoreError
                 /\ fetched' = Append(fetched, [after |-> lastID, ok |-> FALSE,
                                                size |-> 0, ids |-> <<>>])
                 /\ UNCHANGED <<lastID, page, j>>
            ELSE /\ NoSend
                 /\ fetched' = Append(fetched, [after |-> lastID, ok |-> TRUE,
                                                size |-> Len(depRepos),
                                                ids |-> [n \in 1..Len(depRepos) |-> depRepos[n].ID]])
                 /\ IF PageEndsLoop(depRepos)
                    THEN /\ pc' = "done"
                         /\ UNCHANGED <<lastID, page, j>>
                    ELSE /\ pc' = "items"
                         /\ lastID' = depRepos[Len(depRepos)].ID
                         /\ page' = depRepos
                         /\ j' = 1
    /\ UNCHANGED <<urls, registry, cancelled, last, deps, store, i, pkgVersions,
                   nrecv, consuming, infoFetched>>
    /\ UNCHANGED <<earlier, getAt, waitedOn, bucket, coord>>

\* ListRepos, lines 88-115: one iteration of the loop over the page.
Item ==
    /\ pc = "items"
    /\ ~blocked
    /\ j <= Len(page)
    /\ LET dbDep == ItemAt(page, j)
           dep == ParseGoDependency(dbDep.Name)
           pkgKey == PackageSyntax(dep)
       IN  IF ~dep.ok
           THEN /\ IF BadRowResults(dbDep) = <<>> THEN NoSend
                   ELSE Send(BadRowResults(dbDep)[1])
                /\ UNCHANGED <<pkgVersions, infoFetched>>
           ELSE \E got \in PackageInfos :
                LET miss == CacheMiss(pkgVersions, pkgKey)
                    cache == IF miss THEN CacheAfterFetch(pkgVersions, pkgKey, got)
                             ELSE pkgVersions
                    info == IF pkgKey \in DOMAIN cache THEN cache[pkgKey]
                            ELSE [Versions |-> {}]
                IN  /\ pkgVersions' = cache
                    /\ infoFetched' = IF miss THEN Append(infoFetched, pkgKey)
                                      ELSE infoFetched
                    /\ IF (miss /\ ~got.ok) \/ ~hasVersion(info, dbDep.Version)
                       THEN NoSend
                       ELSE Send(RepoResult(makeRepo(dep), 2, dbDep.ID))
    /\ j' = j + 1
    /\ LET onward == IF j = Len(page) THEN "fetch" ELSE pc
       IN  pc' = IF ParseGoDependency(ItemAt(page, j).Name).ok THEN onward
                 ELSE AfterRowParseError(onward)
    /\ UNCHANGED <<urls, registry, cancelled, last, deps, store, i, lastID, page,
                   nrecv, consuming, fetched>>
    /\ UNCHANGED <<earlier, getAt, waitedOn, bucket, coord>>

\* The consumer receives the next result; a blocked send completes.
Receive ==
    /\ consuming
    /\ nrecv < Len(produced)
    /\ nrecv' = nrecv + 1
    /\ blocked' = FALSE
    /\ UNCHANGED <<urls, registry, cancelled, last, deps, store, pc, i, lastID,
                   page, j, pkgVersions, produced, consuming, fetched, infoFetched>>
    /\ UNCHANGED <<earlier, getAt, waitedOn, bucket, coord>>

\* The consumer stops receiving.
StopReceiving ==
    /\ consuming
    /\ consuming' = FALSE
    /\ UNCHANGED <<urls, registry, cancelled, last, deps, store, pc, i, lastID,
                   page, j, pkgVersions, produced, blocked, nrecv, fetched,
                   infoFetched>>
    /\ UNCHANGED <<earlier, getAt, waitedOn, bucket, coord>>

\* The caller cancels ctx.
Cancel ==
    /\ ~cancelled
    /\ pc \notin {"done", "panic"}
    /\ cancelled' = TRUE
    /\ UNCHANGED <<urls, registry, last, deps, store, pc, i, lastID, page, j,
                   pkgVersions, produced, blocked, nrecv, consuming, fetched,
                   infoFetched>>
    /\ UNCHANGED <<earlier, getAt, waitedOn, bucket, coord>>

\* A run whose consumer keeps receiving.
Next == Start \/ Phase1 \/ Fetch \/ Item \/ Receive \/ Cancel

Spec == Init /\ [][Next]_vars

\* A run whose consumer may stop receiving at any moment.
NextStalling == Next \/ StopReceiving

SpecStalling == Init /\ [][NextStalling]_vars

\* ------------------------------------------------- claims: proxy client

\* A proxy operation has been called.
Called == last.op \in {"GetVersion", "ListVersions", "GetZip"}

\* In the last call the endpoint at position k of c.urls receives the
\* request, if it is sent, and answers it with one of the status codes.
AnswersWith(k, codes) ==
    /\ k <= Len(urls)
    /\ \A n \in 1..k : urls[n] # BadURL
    /\ ~last.resp[k].net
    /\ last.resp[k].code \in codes

NotFoundCodes == {StatusNotFound, StatusGone}

\* C1 - Failover: with endpoints [A, B], A answering 404 or 410 and B
\* answering 200, every proxy operation returns B's payload and a nil error.
C1_Failover ==
    (/\ Called
     /\ Len(urls) = 2
     /\ AnswersWith(1, NotFoundCodes)
     /\ AnswersWith(2, {StatusOK}))
    => (/\ last.ok
        /\ last.err = NoErr
        /\ ~last.panic
        /\ last.payload = BodyOf(2)
        /\ last.contacted = <<1, 2>>)

\* C1 witness: GetVersion failed over from a 410 to B's 200.
C1_Witness ==
    /\ last.op = "GetVersion"
    /\ Len(urls) = 2
    /\ AnswersWith(1, {StatusGone})
    /\ AnswersWith(2, {StatusOK})
    /\ last.ok
    /\ last.payload = BodyOf(2)

\* C2 - No failover on hard error: with endpoints [A, B] and A answering a
\* status that is neither 200 nor 404/410, GetVersion returns A's proxy
\* error (with A's status code) and B is never contacted.
C2_HardErrorReturned ==
    (/\ last.op = "GetVersion"
     /\ Len(urls) = 2
     /\ AnswersWith(1, {StatusInternalServerError, StatusNoContent}))
    => (/\ last.err = ProxyError(1, last.resp[1].code)
        /\ ~last.panic
        /\ last.contacted = <<1>>)

\* C3 - Exhaustion: when every configured endpoint answers 404 or 410, get
\* returns the not-found error of the last endpoint of the list.
C3_ExhaustionReturnsLastNotFound ==
    (/\ Called
     /\ Len(urls) >= 1
     /\ \A k \in 1..Len(urls) : AnswersWith(k, NotFoundCodes))
    => (/\ last.err.kind = "Error"
        /\ IsNotFound(last.err)
        /\ last.err.at = Len(urls))

\* ------------------------------------------- claims: reconciliation run

\* The configured strings that parse, and whether one does not.
Parses(k) == ParseGoDependency(deps[k]).ok
SomeInvalid == \E k \in 1..Len(deps) : ~Parses(k)
FirstInvalid == CHOOSE k \in 1..Len(deps) : ~Parses(k) /\ \A n \in 1..(k - 1) : Parses(n)

\* ListRepos has returned.
Returned == pc = "done" /\ ~blocked

\* The positions in produced of the results for the configured dependency k.
Phase1Results(k) ==
    {n \in 1..Len(produced) : produced[n].phase = 1 /\ produced[n].idx = k}

CheckedByProxy(k) ==
    /\ pc # "start"
    /\ ~SomeInvalid
    /\ k < i \/ (k = i /\ pc = "panic")

\* C5 - Phase 1 proxy failure is per-item: every configured dependency that
\* parses gets exactly one result, and a failed GetVersion check never keeps
\* the run from going on to the remaining dependencies and Phase 2.
C5_Phase1FailurePerItem ==
    \A k \in 1..Len(deps) :
        CheckedByProxy(k) =>
            /\ Cardinality(Phase1Results(k)) = 1
            /\ pc # "panic"

\* A page fetch has failed.
StoreFailed == \E n \in 1..Len(fetched) : ~fetched[n].ok

\* C6 - Store failure is fatal for the run: the failed fetch is the last
\* one, exactly one error record is sent for it, it is the last record, and
\* after it nothing is fetched, requested or sent.
C6_StoreFailureFatal ==
    /\ [](StoreFailed =>
            /\ ~fetched[Len(fetched)].ok
            /\ \A n \in 1..(Len(fetched) - 1) : fetched[n].ok
            /\ pc = "done"
            /\ produced # <<>>
            /\ produced[Len(produced)] = ErrResult(StoreErr, 2, 0)
            /\ Cardinality({n \in 1..Len(produced) : produced[n].err = StoreErr}) = 1)
    /\ [][StoreFailed => UNCHANGED <<produced, fetched, infoFetched, last, pc>>]_vars

\* C6 witness: a fetch failed after a page had been processed, and the run
\* returned.
C6_Witness ==
    /\ StoreFailed
    /\ Len(fetched) >= 2
    /\ Returned
    /\ produced[Len(produced)] = ErrResult(StoreErr, 2, 0)

\* C7 - Pagination termination: every fetch but the last returned a
\* non-empty page; the loop is left exactly after an empty page or a failed
\* fetch, so k non-empty pages and an empty one make k + 1 fetches; a page
\* shorter than the page size does not end the loop.
C7_PaginationTermination ==
    /\ \A n \in 1..(Len(fetched) - 1) : fetched[n].ok /\ fetched[n].size > 0
    /\ fetched # <<>> =>
         LET f == fetched[Len(fetched)]
         IN  /\ (pc = "done") <=> (~f.ok \/ f.size = 0)
             /\ (f.ok /\ f.size > 0) => pc \in {"items", "fetch"}
    /\ (pc \in {"items", "fetch"}) => fetched # <<>>

\* C7 witness: a full page, a short page and an empty page: three fetches,
\* then ListRepos returned.
C7_Witness ==
    /\ Returned
    /\ Len(fetched) = 3
    /\ fetched[1].ok /\ fetched[1].size = PageLimit
    /\ fetched[2].ok /\ fetched[2].size > 0 /\ fetched[2].size < PageLimit
    /\ fetched[3].ok /\ fetched[3].size = 0

RECURSIVE Concat(_)
\* The concatenation of a sequence of sequences.
Concat(ss) == IF ss = <<>> THEN <<>> ELSE Head(ss) \o Concat(Tail(ss))

RECURSIVE IsSubseq(_, _)
\* a is b with some elements left out.
IsSubseq(a, b) ==
    IF a = <<>> THEN TRUE
    ELSE IF b = <<>> THEN FALSE
    ELSE IF Head(a) = Head(b) THEN IsSubseq(Tail(a), Tail(b))
    ELSE IsSubseq(a, Tail(b))

\* The IDs of the store items visited so far, in the order the store
\* returned them: the pages in fetch order, the current page up to j.
Visited ==
    LET ids == [n \in 1..Len(fetched) |-> fetched[n].ids]
    IN  IF pc = "items"
        THEN Concat(SubSeq(ids, 1, Len(ids) - 1)) \o SubSeq(ids[Len(ids)], 1, j - 1)
        ELSE Concat(ids)

\* The store rows the repository records of Phase 2 are for, in send order.
StoreDerived ==
    LET ns == SelectSeq([n \in 1..Len(produced) |-> n],
                        LAMBDA n : produced[n].phase = 2 /\ produced[n].kind = "repo")
    IN  [n \in 1..Len(ns) |-> produced[ns[n]].idx]

\* C8 - Emission order: the results for the configured dependencies are
\* sent in configured order, all of them before the first page is fetched
\* and before any store-derived record; store-derived records are sent in
\* page-fetch order and, within a page, in the order the store returned.
C8_EmissionOrder ==
    /\ \A m, n \in 1..Len(produced) :
         m < n => /\ produced[m].phase <= produced[n].phase
                  /\ (produced[m].phase = 1 /\ produced[n].phase = 1)
                       => produced[m].idx < produced[n].idx
    /\ fetched # <<>> =>
         \A k \in 1..Len(deps) : \E n \in 1..Len(Sent) : n \in Phase1Results(k)
    /\ IsSubseq(StoreDerived, Visited)

\* C8 witness: a record for a configured dependency, then records for both
\* items of a page, in the order of the page.
C8_Witness ==
    /\ Len(produced) >= 3
    /\ produced[1].phase = 1
    /\ produced[2].phase = 2 /\ produced[2].idx = 2
    /\ produced[3].phase = 2 /\ produced[3].idx = 1

\* C9 - Cache reuse: Phase 2 fetches the metadata of a module at most once
\* in a run.
C9_OneFetchPerNamespace ==
    \A m, n \in 1..Len(infoFetched) : m # n => infoFetched[m] # infoFetched[n]

\* C9 witness: records for two rows of one module at different versions
\* after a single metadata fetch.
C9_Witness ==
    /\ \E m, n \in 1..Len(produced) :
         /\ produced[m].phase = 2 /\ produced[m].kind = "repo"
         /\ produced[n].phase = 2 /\ produced[n].kind = "repo"
         /\ store[produced[m].idx].Name = store[produced[n].idx].Name
         /\ store[produced[m].idx].Version # store[produced[n].idx].Version
    /\ Len(infoFetched) = 1

\* The iteration of the page loop that is taken in this step visits an item
\* whose name parses and whose version the metadata of its module (as cached
\* after the step) does not list.
SkipsStale ==
    /\ pc = "items"
    /\ ~blocked
    /\ j <= Len(page)
    /\ j' = j + 1
    /\ ParseGoDependency(page[j].Name).ok
    /\ LET pkgKey == ParseGoDependency(page[j].Name).Path
       IN  /\ pkgKey \in DOMAIN pkgVersions'
           /\ page[j].Version \notin pkgVersions'[pkgKey].Versions

\* C10 - Stale version skip: an item whose version the metadata of its
\* module does not list yields no result of any kind, and the loop goes on
\* with the next item.
C10_StaleVersionSkipped ==
    [][SkipsStale => /\ produced' = produced
                     /\ pc' = IF j = Len(page) THEN "fetch" ELSE "items"]_vars

\* C10 witness: the run went through a page whose item is at a version the
\* fetched metadata does not list, and sent nothing.
C10_Witness ==
    /\ Returned
    /\ Len(store) = 1
    /\ store[1].Name \in DOMAIN pkgVersions
    /\ store[1].Version \notin pkgVersions[store[1].Name].Versions
    /\ infoFetched = <<store[1].Name>>
    /\ fetched # <<>>
    /\ \A n \in 1..Len(produced) : produced[n].phase = 1

\* ------------------------------------------------------ claims: coverage

\* What the proxy holds while the run lasts: module "p" at v1 only (p@v2 is
\* answered 404), module "q" at v1.
ProxyHolds(path) == IF path \in {<<"p">>, <<"q">>} THEN {<<"v1">>} ELSE {}

\* The proxy confirms the configured dependency k / the store row id.
ConfirmedDep(k) ==
    /\ Parses(k)
    /\ ParseGoDependency(deps[k]).Version \in ProxyHolds(ParseGoDependency(deps[k]).Path)
ConfirmedRow(id) ==
    /\ ParseGoDependency(store[id].Name).ok
    /\ store[id].Version \in ProxyHolds(store[id].Name)

\* Every answer the proxy gave in the run so far is the one ProxyHolds
\* dictates: 200 for the dependencies that have a record, 404 or 410 for the
\* one whose check made GetVersion crash, the versions held for every
\* metadata fetch (none of which failed).
Faithful ==
    /\ \A n \in 1..Len(produced) :
         (produced[n].phase = 1 /\ produced[n].kind = "repo")
            => ConfirmedDep(produced[n].idx)
    /\ pc = "panic" =>
         /\ ~ConfirmedDep(i)
         /\ Len(last.answers) = 1
         /\ ~last.answers[1].net
         /\ last.answers[1].code \in NotFoundCodes
    /\ \A n \in 1..Len(infoFetched) :
         pkgVersions[infoFetched[n]].Versions = ProxyHolds(infoFetched[n])

\* The run is over: ListRepos returned or crashed, and the consumer has
\* received everything that was sent.
Ended == pc \in {"done", "panic"} /\ ~blocked /\ nrecv = Len(produced)

HasDepRecord(k) ==
    \E n \in Phase1Results(k) : produced[n].kind = "repo"
HasRowRecord(id) ==
    \E n \in 1..Len(produced) :
        produced[n].phase = 2 /\ produced[n].kind = "repo" /\ produced[n].idx = id

\* C11 - Completeness: when a run over a configuration whose strings all
\* parse is over, without cancellation or store failure and with the proxy
\* answering as ProxyHolds dictates, there is a repository record for every
\* configured dependency the proxy confirms and for every store row whose
\* name parses and whose version the proxy's metadata lists.
C11_Completeness ==
    (Ended /\ ~SomeInvalid /\ ~cancelled /\ ~StoreFailed /\ Faithful) =>
        /\ \A k \in 1..Len(deps) : ConfirmedDep(k) => HasDepRecord(k)
        /\ \A id \in 1..Len(store) : ConfirmedRow(id) => HasRowRecord(id)

\* The positions in produced of the repository records.
RepoRecords == {n \in 1..Len(produced) : produced[n].kind = "repo"}

\* The module path of the coordinate the record at position n was made for:
\* a configured dependency (phase 1) or a store row (phase 2).
CoordPath(n) ==
    IF produced[n].phase = 1
    THEN ParseGoDependency(deps[produced[n].idx]).Path
    ELSE store[produced[n].idx].Name

\* The version of that coordinate.
CoordVersion(n) ==
    IF produced[n].phase = 1
    THEN ParseGoDependency(deps[produced[n].idx]).Version
    ELSE store[produced[n].idx].Version

MaxRuns == 2

\* The repository records sent in the run, as a set.
RepoSet == {produced[n].repo : n \in RepoRecords}

\* Nothing but the configuration, the store contents and what the proxy
\* holds shaped the run: no cancellation, no failed page fetch, and the
\* proxy answered as ProxyHolds dictates.
Clean == ~cancelled /\ ~StoreFailed /\ Faithful

\* The cursor of the earlier run kept for the next one.
InitialCursor_CarriedOver(cursor) == cursor

\* Line 70, lastID := 0: the cursor a run starts with, whatever the cursor
\* of the run before it was.
InitialCursor(cursor) == 0

\* The configurations and stores of the behaviours with several runs.
RerunDepStrings == {<<"p", "@", "v1">>, <<"p", "@", "v2">>}
RerunRowData ==
    {[Name |-> <<"p">>, Version |-> <<"v1">>],
     [Name |-> <<"p">>, Version |-> <<"v2">>],
     [Name |-> <<"q">>, Version |-> <<"v1">>]}

InitRuns ==
    /\ urls = RunUrls
    /\ registry = EmptyRegistry
    /\ cancelled = FALSE
    /\ last = NoCall
    /\ deps \in SeqsUpTo(RerunDepStrings, MaxDeps)
    /\ store \in SeqsUpTo(RerunRowData, MaxRows)
    /\ pc = "start"
    /\ i = 1
    /\ lastID = 0
    /\ page = <<>>
    /\ j = 1
    /\ pkgVersions = EmptyCache
    /\ produced = <<>>
    /\ blocked = FALSE
    /\ nrecv = 0
    /\ consuming = TRUE
    /\ fetched = <<>>
    /\ infoFetched = <<>>
    /\ earlier = <<>>
    /\ getAt = [c \in Clients |-> 0]
    /\ waitedOn = {}
    /\ coord = NoCoord
    /\ bucket = NewLimiter(Inf)

\* ListRepos is called again (next sync) after a run that returned, with the
\* same configuration and store and a fresh ctx and results channel.  The
\* locals of ListRepos start afresh; the limiter registry is the process's.
\* Only a run that nothing disturbed is followed by another: its records
\* are what the next run's are compared with.
Rerun ==
    /\ pc = "done"
    /\ Ended
    /\ Clean
    /\ Len(earlier) < MaxRuns - 1
    /\ earlier' = Append(earlier, [repos |-> RepoSet, cursor |-> lastID,
                                   cached |-> DOMAIN pkgVersions])
    /\ pc' = "start"
    /\ i' = 1
    /\ lastID' = InitialCursor(lastID)
    /\ page' = <<>>
    /\ j' = 1
    /\ pkgVersions' = EmptyCache
    /\ produced' = <<>>
    /\ blocked' = FALSE
    /\ nrecv' = 0
    /\ consuming' = TRUE
    /\ fetched' = <<>>
    /\ infoFetched' = <<>>
    /\ cancelled' = FALSE
    /\ last' = NoCall
    /\ UNCHANGED <<urls, registry, deps, store, getAt, waitedOn, bucket, coord>>

NextRuns == Next \/ Rerun

SpecRuns == InitRuns /\ [][NextRuns]_vars

ListReposStep == Start \/ Phase1 \/ Fetch \/ Item

\* C14 - Cancellation at the output stream: when ctx is cancelled while
\* ListRepos waits in a send that the consumer, having stopped receiving,
\* will not take, ListRepos has a step to take (the wait is aborted): it is
\* not left blocked in the send for ever.
C14_CancelAbortsBlockedSend ==
    (blocked /\ cancelled /\ ~consuming) => ENABLED ListReposStep

\* ------------------------------------------------------ concurrent clients

\* Client c (of one of several sources syncing at once) calls a proxy
\* operation: Client.get enters its loop over c.urls.
EnterGet ==
    /\ \E c \in Clients :
        /\ getAt[c] = 0
        /\ Len(urls) >= 1
        /\ getAt' = [getAt EXCEPT ![c] = 1]
    /\ UNCHANGED <<urls, registry, cancelled, last, waitedOn, bucket, coord>>
    /\ UNCHANGED runVars

\* One iteration of the loop of Client.get of client c (lines 85-104), the
\* iterations of the clients interleaving: get-or-create of the limiter,
\* the wait on it (which the cancellation of the call's ctx may end), the
\* request and what the endpoint answers.
GetIteration ==
    /\ \E c \in Clients :
        /\ getAt[c] >= 1
        /\ LET k == getAt[c]
               baseURL == urls[k]
               reg1 == GetOrSet(registry, baseURL, c)
               limiter == WaitLimiter(reg1, baseURL, c)
           IN  /\ registry' = reg1
               /\ waitedOn' = waitedOn \cup
                     {[client |-> c, url |-> baseURL, limiter |-> limiter]}
               /\ \E fired \in BOOLEAN, answer \in Responses :
                    LET r == ClientDo(k, answer)
                        goesOn == /\ ~fired
                                  /\ baseURL # BadURL
                                  /\ ~(r.err = NoErr \/ ~ErrcodeIsNotFound(r.err))
                                  /\ k < Len(urls)
                    IN  getAt' = [getAt EXCEPT ![c] = IF goesOn THEN k + 1 ELSE 0]
    /\ UNCHANGED <<urls, cancelled, last, bucket, coord>>
    /\ UNCHANGED runVars

NextRace == EnterGet \/ GetIteration

SpecRace == InitClient /\ [][NextRace]_vars

\* C15 - One limiter per endpoint: the limiter registered for a base URL
\* never changes, and every wait for a request to a base URL, of whichever
\* client, was on the limiter the registry holds for that URL: all requests
\* to one endpoint wait on one instance.
C15_OneLimiterPerEndpoint ==
    /\ [](/\ \A w \in waitedOn : registry[w.url] = w.limiter
          /\ \A v, w \in waitedOn : v.url = w.url => v.limiter = w.limiter)
    /\ [][\A u \in URLS : registry[u] # NoLimiter => registry'[u] = registry[u]]_vars

\* C15 witness: two clients are both in the middle of a call, each has
\* waited for a request to the same first endpoint, on the same limiter,
\* which is not the second client's own.
C15_Witness ==
    /\ \A c \in Clients : c \in {1, 2} => getAt[c] = 2
    /\ \E v, w \in waitedOn :
         /\ v.client = 1 /\ w.client = 2
         /\ v.url = w.url
         /\ v.limiter = w.limiter
         /\ w.limiter # w.client

\* ---------------------------------------------------- one client's limiter

\* Most requests a client issues, and most seconds it lets pass in between.
MaxRequests == 103
MaxPauses == 2

\* config.RateLimit.RequestsPerHour of the client (Inf: not enabled).
RatesPerHour == {3600, 7200, Inf}

InitLimiter ==
    /\ urls = RunUrls
    /\ registry = EmptyRegistry
    /\ cancelled = FALSE
    /\ last = NoCall
    /\ RunIdle
    /\ \E requestsPerHour \in RatesPerHour : bucket = NewLimiter(requestsPerHour)

\* The client's next request to the endpoint, issued as soon as the one
\* before it has returned: it waits on the limiter (line 88); the request
\* itself takes no time.
LimitedRequest ==
    /\ bucket.n < MaxRequests
    /\ bucket' = LimiterWait(bucket)
    /\ UNCHANGED <<urls, registry, cancelled, last>>
    /\ UNCHANGED runVars
    /\ UNCHANGED raceVars
    /\ UNCHANGED coord

\* The client lets a second pass before its next request.
Pause ==
    /\ bucket.idle < MaxPauses * 1000
    /\ bucket' = LimiterIdle(bucket)
    /\ UNCHANGED <<urls, registry, cancelled, last>>
    /\ UNCHANGED runVars
    /\ UNCHANGED raceVars
    /\ UNCHANGED coord

NextLimiter == LimitedRequest \/ Pause

SpecLimiter == InitLimiter /\ [][NextLimiter]_vars

\* C16 (as claimed) - Rate limiting: with 3600 requests per hour, three
\* requests issued back-to-back by a freshly created client take at least
\* 2 seconds.
C16_ThreeRequestsTakeTwoSeconds ==
    (bucket.limit = 1 /\ bucket.idle = 0 /\ bucket.n = 3) => bucket.now >= 2000

\* C16 (as amended) - Rate limiting with a burst of 100: by time t (ms) a
\* client limited to r requests per second has issued at most 100 + r*t/1000
\* requests; issued back-to-back, the first 100 do not wait and each later
\* one waits 1000/r ms, so 102 requests at 1 per second take 2 seconds.
C16_BurstThenRate ==
    bucket.limit # Inf =>
        /\ bucket.n * 1000 <= Burst * 1000 + bucket.limit * bucket.now
        /\ bucket.idle = 0 =>
             bucket.now = (IF bucket.n > Burst THEN bucket.n - Burst ELSE 0)
                              * (1000 \div bucket.limit)

\* C16 witness: 102 back-to-back requests at 1 per second took 2 seconds.
C16_Witness ==
    /\ bucket.limit = 1
    /\ bucket.idle = 0
    /\ bucket.n = Burst + 2
    /\ bucket.now = 2000

\* ------------------------------------------------- dependency identifiers

\* Longest dependency string parsed.
MaxLen == 3

\* The symbols of the dependency strings; "latest" is a word that is not a
\* canonical semantic version.
Latest == "latest"
Alphabet == PathSyms \cup VerSyms \cup {At, "!", Latest}

InitParse ==
    /\ urls = RunUrls
    /\ registry = EmptyRegistry
    /\ cancelled = FALSE
    /\ last = NoCall
    /\ deps = <<>>
    /\ store = <<>>
    /\ pc = "idle"
    /\ i = 1
    /\ lastID = 0
    /\ page = <<>>
    /\ j = 1
    /\ pkgVersions = EmptyCache
    /\ produced = <<>>
    /\ blocked = FALSE
    /\ nrecv = 0
    /\ consuming = TRUE
    /\ fetched = <<>>
    /\ infoFetched = <<>>
    /\ earlier = <<>>
    /\ getAt = [c \in Clients |-> 0]
    /\ waitedOn = {}
    /\ bucket = NewLimiter(Inf)
    /\ \E s \in SeqsUpTo(Alphabet, MaxLen) : coord = [NoCoord EXCEPT !.stage = "input", !.input = s]

\* Everything but coord.
restVars == <<urls, registry, cancelled, last, deps, store, pc, i, lastID, page,
              j, pkgVersions, produced, blocked, nrecv, consuming, fetched,
              infoFetched, earlier, getAt, waitedOn, bucket>>

\* ParseGoDependency(input).
Parse ==
    /\ coord.stage = "input"
    /\ coord' = [coord EXCEPT !.stage = "parsed", !.dep = ParseGoDependency(coord.input)]
    /\ UNCHANGED restVars

\* dep.PackageManagerSyntax() of the dependency parsed.
Syntax ==
    /\ coord.stage = "parsed"
    /\ coord.dep.ok
    /\ coord' = [coord EXCEPT !.stage = "printed", !.printed = PackageManagerSyntax(coord.dep)]
    /\ UNCHANGED restVars

\* ParseGoDependency of what PackageManagerSyntax returned.
Reparse ==
    /\ coord.stage = "printed"
    /\ coord' = [coord EXCEPT !.stage = "reparsed", !.reparsed = ParseGoDependency(coord.printed)]
    /\ UNCHANGED restVars

\* makeRepo(dep) of the dependency parsed.
Resolve ==
    /\ coord.stage = "parsed"
    /\ coord.dep.ok
    /\ coord' = [coord EXCEPT !.stage = "resolved", !.repo = makeRepo(coord.dep)]
    /\ UNCHANGED restVars

NextParse == Parse \/ Syntax \/ Reparse \/ Resolve

SpecParse == InitParse /\ [][NextParse]_vars

\* The string ends in an at sign.
EndsInAt(s) == s # <<>> /\ s[Len(s)] = At

\* C17 (as claimed) - Round-trip law: what ParseGoDependency returns parses
\* back, from its PackageManagerSyntax, to an Equal coordinate, and the
\* PackageManagerSyntax of what an accepted string parses to is that
\* string.
C17_RoundTrip ==
    /\ coord.stage = "reparsed" =>
         /\ coord.reparsed.ok
         /\ Equal(coord.reparsed, coord.dep)
    /\ coord.stage \in {"printed", "reparsed"} => coord.printed = coord.input

\* C17 (as amended) - Round-trip law up to a trailing at sign: the first
\* half as claimed; the PackageManagerSyntax of what an accepted string
\* parses to is that string, without its last symbol when that is an at
\* sign (an empty version).
C17_RoundTripUpToTrailingAt ==
    /\ coord.stage = "reparsed" =>
         /\ coord.reparsed.ok
         /\ Equal(coord.reparsed, coord.dep)
    /\ coord.stage \in {"printed", "reparsed"} =>
         coord.printed = IF EndsInAt(coord.input)
                         THEN SubSeq(coord.input, 1, Len(coord.input) - 1)
                         ELSE coord.input

\* C17 witness: "p@v1" parsed, printed as "p@v1" and parsed back to an Equal
\* coordinate.
C17_Witness ==
    /\ coord.stage = "reparsed"
    /\ coord.input = <<"p", "@", "v1">>
    /\ coord.dep = [ok |-> TRUE, Path |-> <<"p">>, Version |-> <<"v1">>]
    /\ coord.printed = coord.input
    /\ Equal(coord.reparsed, coord.dep)

\* The input has been parsed.
Parsed == coord.stage \notin {"none", "input"}

\* The input holds no at sign and is a valid module path.
BarePath == LastIndex(coord.input, At) = 0 /\ CheckPath(coord.input)

\* C18 (as claimed) - Implicit version default: a string without an at sign
\* whose namespace is valid parses to a coordinate with the version
\* "latest"; every coordinate returned has a valid module version or
\* "latest".
C18_DefaultsToLatest ==
    Parsed =>
        /\ BarePath => coord.dep.ok /\ coord.dep.Version = <<Latest>>
        /\ coord.dep.ok =>
             \/ Check(coord.dep.Path, coord.dep.Version)
             \/ coord.dep.Version = <<Latest>>

\* C18 (as amended) - No version default: a string without an at sign whose
\* namespace is valid parses to a coordinate with the empty version; every
\* coordinate returned has a valid module version or the empty one.
C18_DefaultsToEmpty ==
    Parsed =>
        /\ BarePath => coord.dep.ok /\ coord.dep.Version = <<>>
        /\ coord.dep.ok =>
             \/ Check(coord.dep.Path, coord.dep.Version)
             \/ coord.dep.Version = <<>>

\* C18 witness: "pq" parsed to the path "pq" with the empty version.
C18_Witness ==
    /\ coord.stage = "parsed"
    /\ coord.input = <<"p", "q">>
    /\ coord.dep = [ok |-> TRUE, Path |-> <<"p", "q">>, Version |-> <<>>]

\* C19 - Deterministic identity mapping: the repository record built for a
\* coordinate has the name "go/" + namespace, whatever the version, its
\* uri, external ID and clone URL are that same string, and it is not
\* private; the name of the coordinate at any other version is the same.
C19_IdentityMapping ==
    coord.stage = "resolved" =>
        /\ coord.repo.Name = <<GoPrefix>> \o coord.dep.Path
        /\ coord.repo.URI = coord.repo.Name
        /\ coord.repo.ExternalID = coord.repo.Name
        /\ coord.repo.CloneURL = coord.repo.Name
        /\ coord.repo.Private = FALSE
        /\ \A v \in {<<>>} \cup {<<x>> : x \in VerSyms} :
             RepoName([coord.dep EXCEPT !.Version = v]) = coord.repo.Name

\* C19 witness: the record built for "p@v1" is named "go/p" throughout.
C19_Witness ==
    /\ coord.stage = "resolved"
    /\ coord.input = <<"p", "@", "v1">>
    /\ coord.repo = [Name |-> <<"go/", "p">>, URI |-> <<"go/", "p">>,
                     ExternalID |-> <<"go/", "p">>, CloneURL |-> <<"go/", "p">>,
                     Private |-> FALSE]

\* ------------------------------------------ claims: proxy client, order

\* C20 - Endpoint order and no retry: in one proxy operation the endpoints
\* contacted are the first ones of the configured list, in order and once
\* each, and every one of them but the last contacted answered 404 or 410:
\* after a 200, another status or a failed request no later endpoint is
\* contacted.
C20_OrderNoRetry ==
    Called =>
        \A n \in 1..Len(last.contacted) :
            /\ last.contacted[n] = n
            /\ n < Len(last.contacted) =>
                 /\ ~last.answers[n].net
                 /\ last.answers[n].code \in NotFoundCodes

\* C20 witness: with two endpoints, the first answered 500 and the second,
\* which would have answered 200, was not contacted.
C20_Witness ==
    /\ Called
    /\ Len(urls) = 2
    /\ AnswersWith(1, {StatusInternalServerError})
    /\ AnswersWith(2, {StatusOK})
    /\ last.contacted = <<1>>

\* The loop of the last call gets as far as the wait at position k: the
\* endpoints before it all answer 404 or 410.
Reaches(k) ==
    /\ k <= Len(urls)
    /\ \A n \in 1..(k - 1) : AnswersWith(n, NotFoundCodes)

\* C21 - Permit before request: every request of an operation follows a
\* wait, in that operation, on the limiter registered for its endpoint; and
\* when the wait at an endpoint finds ctx cancelled, the operation returns
\* the error of the wait, having sent no request to that endpoint or to a
\* later one.
C21_PermitBeforeRequest ==
    Called =>
        /\ \A n \in 1..Len(last.contacted) :
             /\ n <= Len(last.waited)
             /\ last.waited[n] = registry[urls[last.contacted[n]]]
        /\ (last.cancelAt # 0 /\ Reaches(last.cancelAt)) =>
             /\ last.err = CtxErr(last.cancelAt)
             /\ ~last.ok
             /\ ~last.panic
             /\ \A n \in 1..Len(last.contacted) : last.contacted[n] < last.cancelAt

\* C21 witness: the first endpoint answered 404 and the wait for the second
\* found ctx cancelled: one request sent, the error of the wait returned.
C21_Witness ==
    /\ last.op = "GetVersion"
    /\ Len(urls) = 2
    /\ last.cancelAt = 2
    /\ AnswersWith(1, {StatusNotFound})
    /\ last.contacted = <<1>>
    /\ Len(last.waited) = 2
    /\ last.err = CtxErr(2)

\* --------------------------------------------------- a single request

\* Client.do for a request to the endpoint at position k of c.urls (a URL
\* the request could be built for), as Client.get calls it.
CallDo ==
    /\ last = NoCall
    /\ \E k \in 1..Len(urls), answer \in Responses :
        /\ urls[k] # BadURL
        /\ LET r == ClientDo(k, answer)
           IN  last' = [NoCall EXCEPT !.op = "do", !.contacted = <<k>>,
                                      !.answers = <<answer>>,
                                      !.ok = (r.err = NoErr),
                                      !.payload = r.body, !.err = r.err]
    /\ UNCHANGED <<urls, registry, cancelled>>
    /\ UNCHANGED runVars
    /\ UNCHANGED raceVars
    /\ UNCHANGED coord
    /\ UNCHANGED bucket

NextDo == CallDo \/ NextClient

SpecDo == InitClient /\ [][NextDo]_vars

\* C22 - Response classification: a request the endpoint answers succeeds,
\* with the body served, exactly when the status is 200; any other status
\* yields an Error with the path's endpoint, the status and the body as
\* message, and no body; the Error is a not-found one exactly for 404 and
\* 410; after any other status, 2xx ones included, a proxy operation
\* contacts no further endpoint.
C22_ResponseClassification ==
    /\ (last.op = "do" /\ ~last.answers[1].net) =>
         LET k == last.contacted[1]
             code == last.answers[1].code
         IN  /\ (last.err = NoErr /\ last.payload = BodyOf(k)) <=> (code = StatusOK)
             /\ code # StatusOK =>
                  /\ last.payload = NilBody
                  /\ last.err = [kind |-> "Error", Code |-> code, at |-> k,
                                 Message |-> BodyOf(k)]
                  /\ IsNotFound(last.err) <=> code \in {404, 410}
    /\ (Called /\ Len(urls) = 2
          /\ AnswersWith(1, {StatusNoContent, StatusInternalServerError}))
         => last.contacted = <<1>>

\* C22 witness: a request answered 204 yielded an Error with that status
\* that is not a not-found one.
C22_Witness ==
    /\ last.op = "do"
    /\ last.answers = <<[net |-> FALSE, code |-> StatusNoContent]>>
    /\ last.err.kind = "Error"
    /\ last.err.Code = StatusNoContent
    /\ ~IsNotFound(last.err)
    /\ last.payload = NilBody

\* ------------------------------------------------ claims: per-item failures

\* The iteration of the page loop that is taken in this step visits an item
\* whose name does not parse.
SkipsBadRow ==
    /\ pc = "items"
    /\ ~blocked
    /\ j <= Len(page)
    /\ j' = j + 1
    /\ ~ParseGoDependency(page[j].Name).ok

\* C23 - Malformed persisted rows do not halt the run: the iteration for an
\* item whose name does not parse sends no result, requests nothing (no
\* proxy call, no metadata fetch, cache untouched), and the loop goes on with
\* the next item of the page or, after the last one, with the next fetch.
C23_BadRowSkipped ==
    [][SkipsBadRow => /\ produced' = produced
                      /\ last' = last
                      /\ infoFetched' = infoFetched
                      /\ pkgVersions' = pkgVersions
                      /\ pc' = IF j = Len(page) THEN "fetch" ELSE "items"]_vars

\* C23 witness: a page began with a row whose name does not parse; the run
\* sent nothing for it, sent the record of the row after it, and returned
\* after fetching an empty page.
C23_Witness ==
    /\ Returned
    /\ Len(store) = 2
    /\ store[2].Name = <<"!">>
    /\ deps = <<>>
    /\ \A n \in 1..Len(fetched) : fetched[n].ok
    /\ fetched[1].ids = <<2, 1>>
    /\ fetched[Len(fetched)].size = 0
    /\ Len(produced) = 1
    /\ produced[1].kind = "repo" /\ produced[1].phase = 2 /\ produced[1].idx = 1
    /\ infoFetched = <<store[1].Name>>

\* The store rows whose iteration of the page loop is over.
Processed == {Visited[n] : n \in 1..Len(Visited)}

\* The row's name does not parse / the metadata cached for the row's module
\* does not list the row's version.
BadRow(id) == ~ParseGoDependency(store[id].Name).ok
StaleRow(id) ==
    /\ store[id].Name \in DOMAIN pkgVersions
    /\ store[id].Version \notin pkgVersions[store[id].Name].Versions

\* The error records sent in the given phase for the item idx.
ErrorRecords(phase, idx) ==
    {n \in 1..Len(produced) : /\ produced[n].kind = "err"
                              /\ produced[n].phase = phase
                              /\ produced[n].idx = idx}

Pending == Len(produced) - nrecv

\* C25 - Backpressure: the results produced and not yet received never
\* exceed the channel capacity plus one; when they exceed the capacity the
\* producer is blocked in its send; and while it is blocked it produces
\* nothing, calls no proxy operation, fetches no page and no metadata, and
\* does not move on.
C25_Backpressure ==
    /\ [](/\ Pending <= ChanCap + 1
          /\ Pending > ChanCap => blocked)
    /\ [][blocked => UNCHANGED <<produced, last, fetched, infoFetched, pc, i, j>>]_vars

\* C25 witness: the consumer has stopped receiving; the producer is blocked
\* sending the result of the first configured dependency, with a second one
\* still to request.
C25_Witness ==
    /\ blocked
    /\ ~consuming
    /\ Pending = ChanCap + 1
    /\ pc = "phase1"
    /\ i = 2
    /\ Len(deps) = 2

\* ------------------------------------- clients sharing an endpoint's limiter

\* NewClient, lines 34-39 and 44: the limiter client c created for itself.
\* The run's client has the configured rate (bucket is its limiter); the
\* other clients have no rate limit or have it disabled.
OwnLimiter(c) == IF c = RunClient THEN bucket ELSE NewLimiter(Inf)

\* The client's configuration has no rate limit, or has it disabled.
Disabled(c) == OwnLimiter(c).limit = Inf

\* Lines 87-90: how long (ms) limiter.Wait keeps the request waiting.
WaitDelay(b) == LimiterWait(b).now - b.now

\* One request of client c to the endpoint, by Client.get (lines 85-90):
\* get-or-create of the endpoint's limiter, then the wait on it.  Each wait
\* is recorded with the time it took.
SharedRequest ==
    /\ \E c \in Clients :
        LET baseURL == urls[1]
            reg1 == GetOrSet(registry, baseURL, c)
            limiter == WaitLimiter(reg1, baseURL, c)
        IN  /\ registry' = reg1
            /\ limiter = RunClient => bucket.n < MaxRequests
            /\ bucket' = IF limiter = RunClient THEN LimiterWait(bucket)
                         ELSE bucket
            /\ waitedOn' = waitedOn \cup
                  {[client |-> c, url |-> baseURL, limiter |-> limiter,
                    delay |-> WaitDelay(OwnLimiter(limiter))]}
    /\ UNCHANGED <<urls, cancelled, last, getAt, coord>>
    /\ UNCHANGED runVars

NextShared == SharedRequest \/ Pause

SpecShared == InitLimiter /\ [][NextShared]_vars

\* C26 as stated - Unbounded rate when disabled: no wait of a client without
\* an enabled rate limit takes any time, whatever the registry held before.
C26_DisabledNeverDelayed ==
    \A w \in waitedOn : Disabled(w.client) => w.delay = 0

\* C26 (as amended) - The wait of a request is on the limiter registered
\* first for the URL, whoever created it.  A wait on the limiter of a client
\* without an enabled rate limit takes no time; a wait on the limiter of a
\* client limited to r requests per second takes no time or 1000/r ms,
\* whether or not the waiting client itself has a limit.
C26_DelayOfRegisteredLimiter ==
    \A w \in waitedOn :
        /\ w.limiter = registry[w.url]
        /\ Disabled(w.limiter) => w.delay = 0
        /\ ~Disabled(w.limiter) =>
             w.delay \in {0, 1000 \div OwnLimiter(w.limiter).limit}

\* C26 witness: a client without a rate limit waited a second for a permit
\* of the limiter that the client limited to 1 request per second had
\* registered for the URL.
C26_Witness ==
    \E w \in waitedOn :
        /\ w.client # RunClient
        /\ Disabled(w.client)
        /\ w.limiter = RunClient
        /\ bucket.limit = 1
        /\ w.delay = 1000

\* ------------------------------------------------------- claims: the cursor

\* The IDs of the items of the n-th page fetched.
PageIDs(n) == {fetched[n].ids[k] : k \in 1..Len(fetched[n].ids)}

\* C27 - Cursor progress: the first fetch of a run passes the cursor zero;
\* each later fetch passes the ID of the last item of the page before it;
\* while a page is processed the cursor already is the ID of its last item;
\* the cursors passed by successive fetches are strictly increasing; and no
\* item is returned in two pages of the run.
C27_CursorProgress ==
    /\ fetched # <<>> => fetched[1].after = 0
    /\ \A n \in 1..(Len(fetched) - 1) :
         fetched[n + 1].after = fetched[n].ids[Len(fetched[n].ids)]
    /\ pc = "items" => lastID = page[Len(page)].ID
    /\ \A m, n \in 1..Len(fetched) : m < n => fetched[m].after < fetched[n].after
    /\ \A m, n \in 1..Len(fetched) : m # n => PageIDs(m) \cap PageIDs(n) = {}

\* ------------------------------------------- claims: parsing a coordinate

\* The input holds an at sign; the position of its last one; what stands
\* before and after it.
HasAt == \E k \in 1..Len(coord.input) : coord.input[k] = At
LastAt ==
    CHOOSE k \in 1..Len(coord.input) :
        /\ coord.input[k] = At
        /\ \A m \in (k + 1)..Len(coord.input) : coord.input[m] # At
BeforeLastAt == SubSeq(coord.input, 1, LastAt - 1)
AfterLastAt == SubSeq(coord.input, LastAt + 1, Len(coord.input))

\* A canonical version.
ValidVersion(v) == \E x \in VerSyms : v = <<x>>

Coordinates == {ParseGoDependency(t) : t \in SeqsUpTo(Alphabet, MaxLen)}

\* dep.Equal(other), other.Equal(dep) and dep.Equal(dep) for what the input
\* parsed to (nil when it was rejected) and another parse result.
Compare ==
    /\ coord.stage = "parsed"
    /\ \E other \in Coordinates :
        coord' = [coord EXCEPT !.stage = "compared",
                               !.other = other,
                               !.eq = Equal(coord.dep, other),
                               !.qe = Equal(other, coord.dep),
                               !.self = Equal(coord.dep, coord.dep)]
    /\ UNCHANGED restVars

NextEqual == Parse \/ Compare

SpecEqual == InitParse /\ [][NextEqual]_vars

\* C29 - Equality is structural: two non-nil coordinates are Equal exactly
\* when they have the same namespace and the same version; Equal is
\* reflexive and symmetric; two nil coordinates are Equal; a nil and a
\* non-nil coordinate are not.
C29_StructuralEquality ==
    coord.stage = "compared" =>
        /\ (coord.dep.ok /\ coord.other.ok) =>
             (coord.eq <=> /\ coord.dep.Path = coord.other.Path
                           /\ coord.dep.Version = coord.other.Version)
        /\ coord.self
        /\ coord.eq = coord.qe
        /\ (~coord.dep.ok /\ ~coord.other.ok) => coord.eq
        /\ (coord.dep.ok # coord.other.ok) => ~coord.eq

\* C29 witness: "p@v1" was compared with the coordinate p@v2, of the same
\* namespace, and found not Equal.
C29_Witness ==
    /\ coord.stage = "compared"
    /\ coord.input = <<"p", "@", "v1">>
    /\ coord.dep.ok
    /\ coord.other = [ok |-> TRUE, Path |-> <<"p">>, Version |-> <<"v2">>]
    /\ ~coord.eq
    /\ coord.self

\* ------------------------------------------------ repository names and back

\* dep.RepoName() of the coordinate the input parsed to, parsed back with
\* ParseGoDependencyFromRepoName, beside the RepoName of another coordinate.
FromRepoName ==
    /\ coord.stage = "parsed"
    /\ coord.dep.ok
    /\ \E other \in Coordinates :
        /\ other.ok
        /\ coord' = [coord EXCEPT
                       !.stage = "named",
                       !.name = RepoName(coord.dep),
                       !.named = ParseGoDependencyFromRepoName(RepoName(coord.dep)),
                       !.other = other,
                       !.otherName = RepoName(other)]
    /\ UNCHANGED restVars

NextName == Parse \/ FromRepoName

SpecName == InitParse /\ [][NextName]_vars

\* C30 - Bidirectional name mapping: the repository name of a coordinate
\* the parser returned parses back, with ParseGoDependencyFromRepoName, to a
\* coordinate of the same namespace; and two coordinates have the same
\* repository name exactly when they have the same namespace.
C30_NameMapping ==
    coord.stage = "named" =>
        /\ coord.named.ok
        /\ coord.named.Path = coord.dep.Path
        /\ (coord.name = coord.otherName) <=> (coord.dep.Path = coord.other.Path)

\* C30 witness: the name "go/p" of p@v1 parsed back to the namespace p, and
\* p@v2 has the same name.
C30_Witness ==
    /\ coord.stage = "named"
    /\ coord.input = <<"p", "@", "v1">>
    /\ coord.name = <<"go/", "p">>
    /\ coord.named = [ok |-> TRUE, Path |-> <<"p">>, Version |-> <<>>]
    /\ coord.other = [ok |-> TRUE, Path |-> <<"p">>, Version |-> <<"v2">>]
    /\ coord.otherName = coord.name

\* ------------------------------------------------ claims: validated records

\* This step sends a repository record; the record it sends.
SendsRepo ==
    /\ Len(produced') = Len(produced) + 1
    /\ produced'[Len(produced')].kind = "repo"
NewRecord == produced'[Len(produced')]

\* C31 - Only validated records are emitted.  A step that sends the
\* repository record of a configured dependency is one in which GetVersion,
\* called for exactly the namespace and version of that dependency, returned
\* the body served by an endpoint that answered 200 (the last one
\* contacted).  A step that sends the record of a store row leaves the
\* row's version among the versions of the metadata cached for its
\* namespace.
C31_OnlyValidatedRecords ==
    [][SendsRepo =>
         IF NewRecord.phase = 1
         THEN LET dep == ParseGoDependency(deps[NewRecord.idx])
                  n == Len(last'.contacted)
              IN  /\ last'.op = "GetVersion"
                  /\ last'.mod = dep.Path
                  /\ last'.version = dep.Version
                  /\ last'.ok /\ last'.err = NoErr /\ ~last'.panic
                  /\ n >= 1
                  /\ last'.answers[n] = [net |-> FALSE, code |-> StatusOK]
                  /\ last'.payload = BodyOf(last'.contacted[n])
         ELSE LET row == store[NewRecord.idx]
              IN  /\ ParseGoDependency(row.Name).ok
                  /\ row.Name \in DOMAIN pkgVersions'
                  /\ row.Version \in pkgVersions'[row.Name].Versions]_vars

\* C31 witness: a run sent the record of a configured dependency after a
\* 200 and the record of a store row whose version the metadata lists.
C31_Witness ==
    /\ Len(produced) = 2
    /\ produced[1].kind = "repo" /\ produced[1].phase = 1
    /\ produced[2].kind = "repo" /\ produced[2].phase = 2
    /\ last.ok
    /\ last.answers = <<[net |-> FALSE, code |-> StatusOK]>>
    /\ store[produced[2].idx].Version
         \in pkgVersions[store[produced[2].idx].Name].Versions

\* --------------------------------------------- claims: what a call returns

\* C32 - Body or error, never neither: every proxy operation returns, and
\* what it returns is either a body with a nil error or no body with an
\* error.
C32_BodyOrError ==
    Called =>
        /\ ~last.panic
        /\ \/ last.payload # NilBody /\ last.err = NoErr
           \/ last.payload = NilBody /\ last.err # NoErr

\* ------------------------------------------ claims: limiters of endpoints

\* C33 - Endpoints are throttled independently: the limiters registered for
\* two distinct base URLs are distinct instances, and so are the limiters a
\* proxy operation waits on for two distinct endpoints of its client.
C33_DistinctLimiters ==
    /\ \A u, v \in URLS :
         (u # v /\ registry[u] # NoLimiter /\ registry[v] # NoLimiter)
           => registry[u] # registry[v]
    /\ Called =>
         \A m, n \in 1..Len(last.waited) :
             (m # n /\ urls[m] # urls[n]) => last.waited[m] # last.waited[n]

\* ------------------------------------------------ claims: negative caching

\* The iteration of the page loop that is taken in this step visits an item
\* whose name parses.
VisitsRow ==
    /\ pc = "items"
    /\ ~blocked
    /\ j <= Len(page)
    /\ j' = j + 1
    /\ ParseGoDependency(page[j].Name).ok

\* C34 - Negative caching of metadata failures.  After the iteration for an
\* item its namespace has a cache entry, whatever the fetch did, and the
\* entry after a fetch that failed (as every fetch under a cancelled context
\* does) is empty; an iteration that finds an entry fetches nothing and
\* leaves the cache alone; an iteration that ends with an empty entry for
\* the namespace sends nothing, neither a record nor an error; and the page
\* loop sends no error record at all.
C34_NegativeCaching ==
    [][VisitsRow =>
         LET pkgKey == page[j].Name
         IN  /\ pkgKey \in DOMAIN pkgVersions'
             /\ (pkgKey \notin DOMAIN pkgVersions /\ cancelled) =>
                  /\ pkgVersions'[pkgKey] = [Versions |-> {}]
                  /\ infoFetched' = Append(infoFetched, pkgKey)
             /\ pkgKey \in DOMAIN pkgVersions =>
                  /\ infoFetched' = infoFetched
                  /\ pkgVersions' = pkgVersions
             /\ pkgVersions'[pkgKey].Versions = {} => produced' = produced
             /\ produced' # produced => produced'[Len(produced')].kind = "repo"]_vars

\* C34 witness: under a cancelled context a page of two rows of one
\* namespace was processed with one fetch, which left an empty entry, and
\* no record was sent for either row.
C34_Witness ==
    /\ cancelled
    /\ Len(store) = 2
    /\ store[1].Name = store[2].Name
    /\ ParseGoDependency(store[1].Name).ok
    /\ pc = "fetch"
    /\ Len(fetched) = 1
    /\ infoFetched = <<store[1].Name>>
    /\ pkgVersions[store[1].Name] = [Versions |-> {}]
    /\ \A n \in 1..Len(produced) : produced[n].phase # 2

\* ------------------------------------------- claims: after the cancellation

\* C35 - No repository record after cancellation: no step taken once ctx is
\* cancelled sends a repository record, in Phase 1 or in Phase 2.
C35_NoRepoAfterCancel ==
    [][cancelled => ~SendsRepo]_vars

\* ------------------------------------------------------ looking up a record

\* GetRepo called with a name: the name of the record makeRepo built for
\* the coordinate the input parsed to (what ListRepos sends for it), or the
\* input itself.  proxy is what the endpoint answers to the version list
\* request, were it sent.
CallGetRepo ==
    /\ coord.stage \in {"input", "resolved"}
    /\ \E env \in Envs(RunClient, RunResponses) :
        LET name == IF coord.stage = "resolved" THEN coord.repo.Name
                    ELSE coord.input
            g == GetRepo(name, env, registry)
        IN  /\ coord' = [coord EXCEPT !.stage = "got",
                                      !.from = coord.stage,
                                      !.asked = name,
                                      !.proxy = env.resp,
                                      !.cancelAt = env.cancelAt,
                                      !.got = g.repo,
                                      !.gotOk = g.ok,
                                      !.gotPanic = g.panic]
            /\ last' = IF g.called
                       THEN [CallRecord(g.list, RunClient,
                                        PackageSyntax(ParseGoDependency(name)),
                                        <<>>, env.resp)
                             EXCEPT !.cancelAt = env.cancelAt]
                       ELSE last
            /\ registry' = g.reg
            /\ cancelled' = (cancelled \/ g.fired)
    /\ UNCHANGED urls
    /\ UNCHANGED runVars
    /\ UNCHANGED raceVars
    /\ UNCHANGED bucket

NextGetRepo == Parse \/ Resolve \/ CallGetRepo

SpecGetRepo == InitParse /\ [][NextGetRepo]_vars

\* C36 - GetRepo agrees with ListRepos: GetRepo called with the name of a
\* record ListRepos sends, while the proxy answers the version list request
\* of the module with 200 and ctx is not cancelled, returns a record with
\* the same name, URI and external ID; and GetRepo returns a record only
\* when the name parses and ListVersions succeeded.
C36_GetRepoAgrees ==
    coord.stage = "got" =>
        /\ (/\ coord.from = "resolved"
            /\ coord.cancelAt = 0
            /\ coord.proxy = <<[net |-> FALSE, code |-> StatusOK]>>)
             => /\ coord.gotOk
                /\ coord.got.Name = coord.repo.Name
                /\ coord.got.URI = coord.repo.URI
                /\ coord.got.ExternalID = coord.repo.ExternalID
        /\ coord.gotOk =>
             /\ ParseGoDependency(coord.asked).ok
             /\ last.op = "ListVersions"
             /\ last.ok

====
